---- MODULE Spec2Model ----
(***************************************************************************)
(* Model of build_proxy.py, the video proxy generator: discovery of the    *)
(* video files of a directory tree (find_video_files), the per-file        *)
(* pipeline (process_video_file: load, clip-window selection, metadata,    *)
(* title card, render) and the batch loop of main with its counters and    *)
(* exit code.                                                              *)
(*                                                                         *)
(* Representation.  A Python str is a sequence of one-character strings,   *)
(* so that suffix, stem, lower(), title() and substring search are         *)
(* computed as pathlib and str compute them.  A path is a record           *)
(* [dir, name]: dir the sequence of directory names below the source       *)
(* root, name the file name.  Optional[str] is None or Some(v).  Durations *)
(* and clip times are whole seconds.                                       *)
(*                                                                         *)
(* Environment.  The external collaborators are inputs of the actions:     *)
(* the order in which the filesystem enumerates a directory (scandir),     *)
(* the outcome of loading a file (an error, or a duration), the value of   *)
(* the random draw, a failure while extracting or encoding, and the        *)
(* outcome of os.stat.  A failed encode is taken to leave no file behind,  *)
(* os.makedirs is taken to succeed, and only exceptions derived from       *)
(* Exception are considered.                                               *)
(***************************************************************************)
EXTENDS Integers, Sequences, FiniteSets, TLC

VARIABLES
    pc,             \* position in main: "start", "discover", "loop", "done", "crashed"
    source_is_dir,  \* os.path.isdir(input_dir)
    dry_run,        \* args.dry_run
    tree,           \* the files below the source directory
    out_dir_exists, \* whether the output directory exists
    out_files,      \* output directory: file name -> source path whose proxy it holds
    fs_before,      \* the output side of the filesystem when the run started
    video_files,    \* main's video_files
    calls,          \* the paths process_video_file was called with, in order
    outcomes,       \* the terminal outcome of each completed call, in order
    successful,     \* main's counter
    failed,         \* main's counter
    last,           \* the frame of the most recent process_video_file call
    exit_code       \* main's return value, -1 while it has not returned

vars ==
    <<pc, source_is_dir, dry_run, tree, out_dir_exists, out_files, fs_before,
      video_files, calls, outcomes, successful, failed, last, exit_code>>

(***************************************************************************)
(* Bounds of the model.                                                    *)
(***************************************************************************)
MaxFiles == 3

MaxDuration == 6

(***************************************************************************)
(* Strings.                                                                *)
(***************************************************************************)
None == [some |-> FALSE]

Some(v) == [some |-> TRUE, val |-> v]

UpperLetters ==
    <<"A","B","C","D","E","F","G","H","I","J","K","L","M",
      "N","O","P","Q","R","S","T","U","V","W","X","Y","Z">>

LowerLetters ==
    <<"a","b","c","d","e","f","g","h","i","j","k","l","m",
      "n","o","p","q","r","s","t","u","v","w","x","y","z">>

IndexIn(letters, c) ==
    CHOOSE i \in 1..Len(letters) : letters[i] = c

IsUpper(c) ==
    \E i \in 1..Len(UpperLetters) : UpperLetters[i] = c

IsLower(c) ==
    \E i \in 1..Len(LowerLetters) : LowerLetters[i] = c

LowerChar(c) ==
    IF IsUpper(c) THEN LowerLetters[IndexIn(UpperLetters, c)] ELSE c

UpperChar(c) ==
    IF IsLower(c) THEN UpperLetters[IndexIn(LowerLetters, c)] ELSE c

\* str.lower()
Lower(s) ==
    [i \in 1..Len(s) |-> LowerChar(s[i])]

\* str.title(): a letter that starts a run of letters is upper-cased, the
\* other letters are lower-cased
Title(s) ==
    [i \in 1..Len(s) |->
        IF i = 1 \/ ~(IsUpper(s[i-1]) \/ IsLower(s[i-1]))
        THEN UpperChar(s[i])
        ELSE LowerChar(s[i])]

\* needle in hay
Contains(hay, needle) ==
    \E i \in 1..(Len(hay) - Len(needle) + 1) :
        SubSeq(hay, i, i + Len(needle) - 1) = needle

MaxOf(S) ==
    CHOOSE m \in S : \A n \in S : n <= m

\* str.rfind("."), 1-based, 0 when there is no dot
RFindDot(name) ==
    LET dots == {i \in 1..Len(name) : name[i] = "."}
    IN  IF dots = {} THEN 0 ELSE MaxOf(dots)

\* pathlib's PurePath.suffix: from the last dot on, unless that dot is the
\* first or the last character of the name
Suffix(name) ==
    LET i == RFindDot(name)
    IN  IF 1 < i /\ i < Len(name) THEN SubSeq(name, i, Len(name)) ELSE <<>>

\* pathlib's PurePath.stem
Stem(name) ==
    LET i == RFindDot(name)
    IN  IF 1 < i /\ i < Len(name) THEN SubSeq(name, 1, i - 1) ELSE name

(***************************************************************************)
(* Program constants.                                                      *)
(***************************************************************************)
VIDEO_EXTENSIONS ==
    { <<".","m","p","4">>, <<".","a","v","i">>, <<".","m","o","v">>,
      <<".","m","k","v">>, <<".","w","m","v">>, <<".","f","l","v">>,
      <<".","w","e","b","m">>, <<".","m","4","v">>, <<".","3","g","p">> }

\* the keyword list of get_video_metadata, in its iteration order
Cities ==
    << <<"p","a","r","i","s">>, <<"l","o","n","d","o","n">>,
       <<"t","o","k","y","o">>, <<"n","y","c">>, <<"b","e","r","l","i","n">> >>

\* the window length: "duration < 5", "duration - 5", "start_time + 5"
ClipSeconds == 5

ProxySuffix ==
    <<"_","p","r","o","x","y",".","m","p","4">>

(***************************************************************************)
(* The source trees considered: every set of at most MaxFiles files of     *)
(* this pool.  The pool holds a lower-case and an upper-case extension, a  *)
(* file that is no video, a dot-file, files in a subdirectory and in a     *)
(* subdirectory of it, two files with the same stem, and names with city   *)
(* keywords.                                                               *)
(***************************************************************************)
Root == <<>>

DirD == << <<"d">> >>

DirDE == << <<"d">>, <<"e">> >>

FilePool ==
    { [dir |-> Root,  name |-> <<"n","y","c",".","m","p","4">>],
      [dir |-> Root,  name |-> <<"a",".","M","O","V">>],
      [dir |-> Root,  name |-> <<"a",".","t","x","t">>],
      [dir |-> Root,  name |-> <<".","m","p","4">>],
      [dir |-> DirD,  name |-> <<"a",".","m","p","4">>],
      [dir |-> DirDE, name |-> <<"N","Y","C","p","a","r","i","s",".","m","k","v">>] }

Trees ==
    {T \in SUBSET FilePool : Cardinality(T) <= MaxFiles}

(***************************************************************************)
(* The filesystem as os.walk sees it.                                      *)
(***************************************************************************)
IsPrefix(p, q) ==
    Len(p) <= Len(q) /\ SubSeq(q, 1, Len(p)) = p

\* the directories of tree T: the root and every directory on the way to a file
DirsOf(T) ==
    {Root} \cup UNION {{SubSeq(f.dir, 1, k) : k \in 0..Len(f.dir)} : f \in T}

\* the entries of directory d, as scandir reports them (in no particular order)
Entries(T, d) ==
    {[kind |-> "file", name |-> f.name] : f \in {g \in T : g.dir = d}}
    \cup
    {[kind |-> "dir", name |-> q[Len(q)]] :
        q \in {r \in DirsOf(T) : Len(r) = Len(d) + 1 /\ IsPrefix(d, r)}}

\* every order in which the elements of S can be listed
RECURSIVE Orders(_)
Orders(S) ==
    IF S = {} THEN {<<>>}
    ELSE UNION {{<<x>> \o o : o \in Orders(S \ {x})} : x \in S}

\* every enumeration order the filesystem can answer with, for the directories ds
RECURSIVE ScanChoices(_, _)
ScanChoices(T, ds) ==
    IF ds = {} THEN {<<>>}
    ELSE LET d == CHOOSE x \in ds : TRUE
         IN  {(d :> o) @@ rest :
                 o \in Orders(Entries(T, d)), rest \in ScanChoices(T, ds \ {d})}

NamesOfKind(entries, kind) ==
    LET sel == SelectSeq(entries, LAMBDA e : e.kind = kind)
    IN  [i \in 1..Len(sel) |-> sel[i].name]

\* os.walk(top), top-down: the triple of top, then the walks of its
\* subdirectories in the order scandir listed them
RECURSIVE Walk(_, _)
RECURSIVE WalkDirs(_, _, _)
Walk(sc, top) ==
    LET dirs  == NamesOfKind(sc[top], "dir")
        files == NamesOfKind(sc[top], "file")
    IN  <<[root |-> top, dirs |-> dirs, files |-> files]>> \o WalkDirs(sc, top, dirs)

WalkDirs(sc, top, dirs) ==
    IF dirs = <<>> THEN <<>>
    ELSE Walk(sc, Append(top, Head(dirs))) \o WalkDirs(sc, top, Tail(dirs))

\* the comparison without lower()
IsVideoFileCaseSensitive(file) ==
    Suffix(file) \in VIDEO_EXTENSIONS

\* Path(file).suffix.lower() in VIDEO_EXTENSIONS
IsVideoFile(file) ==
    Lower(Suffix(file)) \in VIDEO_EXTENSIONS

\* os.path.join(root, file)
Join(root, file) ==
    [dir |-> root, name |-> file]

\* the inner loop of find_video_files over one triple of the walk
VideosOf(triple) ==
    LET vids == SelectSeq(triple.files, IsVideoFile)
    IN  [i \in 1..Len(vids) |-> Join(triple.root, vids[i])]

RECURSIVE Collect(_)
Collect(triples) ==
    IF triples = <<>> THEN <<>>
    ELSE VideosOf(Head(triples)) \o Collect(Tail(triples))

find_video_files(sc, directory) ==
    Collect(Walk(sc, directory))

(***************************************************************************)
(* get_video_metadata.                                                     *)
(***************************************************************************)
\* what os.stat can answer: an OSError, or a modification time
StatOutcomes ==
    {[ok |-> FALSE, st_mtime |-> 0], [ok |-> TRUE, st_mtime |-> 0]}

\* datetime.fromtimestamp(t).strftime("%Y-%m-%d %H:%M"), for the one
\* modification time of the model
Strftime(t) ==
    IF t = 0 THEN "1970-01-01 00:00" ELSE "1970-01-01 00:01"

\* the for loop over the keyword list: the first city found in the
\* lower-cased file name, title-cased; None when the list is exhausted
RECURSIVE FirstCity(_, _)
FirstCity(cities, lowered) ==
    IF cities = <<>> THEN None
    ELSE IF Contains(lowered, Head(cities)) THEN Some(Title(Head(cities)))
    ELSE FirstCity(Tail(cities), lowered)

\* the body of the try block after a successful os.stat
LocationOf(video_path) ==
    LET filename == Stem(video_path.name)
    IN  IF \E k \in 1..Len(Cities) : Contains(Lower(filename), Cities[k])
        THEN FirstCity(Cities, Lower(filename))
        ELSE None

\* os.stat is the first statement of the one try block: when it raises, the
\* except clause is entered with both results still None
get_video_metadata(video_path, stat) ==
    IF ~stat.ok
    THEN [date_str |-> None, location_str |-> None]
    ELSE [date_str |-> Some(Strftime(stat.st_mtime)),
          location_str |-> LocationOf(video_path)]

(***************************************************************************)
(* process_video_file.                                                     *)
(***************************************************************************)
\* the File line appended before the optional lines
TitlePartsFileFirst(date_str, location_str, filename) ==
    LET with_date ==
            IF date_str.some /\ date_str.val # ""
            THEN <<<<"File: ", filename>>, <<"Date: ", date_str.val>>>>
            ELSE <<<<"File: ", filename>>>>
    IN  IF location_str.some /\ location_str.val # <<>>
        THEN Append(with_date, <<"Location: ", location_str.val>>)
        ELSE with_date

\* the lines of the title card; a line f"Date: {x}" is the pair <<"Date: ", x>>
TitleParts(date_str, location_str, filename) ==
    LET with_date ==
            IF date_str.some /\ date_str.val # ""
            THEN <<<<"Date: ", date_str.val>>>> ELSE <<>>
        with_location ==
            IF location_str.some /\ location_str.val # <<>>
            THEN Append(with_date, <<"Location: ", location_str.val>>)
            ELSE with_date
    IN  Append(with_location, <<"File: ", filename>>)

\* f"{filename}_proxy.mp4"; os.path.join(output_dir, ...) puts it directly
\* in the output directory
OutputFilename(filename) ==
    filename \o ProxySuffix

\* the durations considered: an empty clip, and every whole second from
\* one below the window length up to MaxDuration
Durations ==
    {0} \cup ((ClipSeconds - 1)..MaxDuration)

\* what loading a file can answer: an error, or a clip of some duration
CodecOutcomes ==
    {[ok |-> FALSE, duration |-> 0]}
    \cup {[ok |-> TRUE, duration |-> d] : d \in Durations}

\* where the codec fails after the load: nowhere, while extracting and
\* resizing the clip, or while composing and encoding the result
Faults == {"none", "extract", "encode"}

\* the draws of random() are the fractions r / RandomSteps, r in
\* 0..RandomSteps: fine enough for every whole second of the longest
\* clip's range to be drawn
RandomSteps == MaxDuration - ClipSeconds + 1

\* random.uniform(a, b) = a + (b - a) * random()
RandomUniform(a, b, r) ==
    a + ((b - a) * r) \div RandomSteps

\* the window length not subtracted
MaxStartTimeWholeClip(duration) ==
    duration

MaxStartTime(duration) ==
    duration - ClipSeconds

\* the frame of a call before anything has run
NoFrame ==
    [input_path |-> None, loaded |-> FALSE, duration |-> -1,
     start_time |-> -1, end_time |-> -1, extracted |-> FALSE,
     resolved |-> FALSE, date_str |-> None, location_str |-> None,
     title_parts |-> <<>>, output_filename |-> <<>>, wrote |-> FALSE,
     terminal |-> "None", ret |-> FALSE, exception |-> FALSE]

\* the body of the try block of process_video_file: the frame it ends with.
\* terminal "Rejected": it returned False for a short clip; "Rendered": it
\* returned True after writing the proxy; exception TRUE: an exception left it.
Body(input_path, codec, r, fault, stat) ==
    LET f0 == [NoFrame EXCEPT !.input_path = Some(input_path)]
    IN  IF ~codec.ok THEN [f0 EXCEPT !.exception = TRUE]
        ELSE
        LET duration == codec.duration
            f1 == [f0 EXCEPT !.loaded = TRUE, !.duration = duration]
        IN  IF duration < ClipSeconds
            THEN [f1 EXCEPT !.terminal = "Rejected", !.ret = FALSE]
            ELSE
            LET max_start_time == MaxStartTime(duration)
                start_time == RandomUniform(0, max_start_time, r)
                end_time == start_time + ClipSeconds
                f2 == [f1 EXCEPT !.start_time = start_time,
                                 !.end_time = end_time, !.extracted = TRUE]
            IN  IF fault = "extract" THEN [f2 EXCEPT !.exception = TRUE]
                ELSE
                LET meta == get_video_metadata(input_path, stat)
                    filename == Stem(input_path.name)
                    f3 == [f2 EXCEPT
                            !.resolved = TRUE,
                            !.date_str = meta.date_str,
                            !.location_str = meta.location_str,
                            !.title_parts =
                                TitleParts(meta.date_str, meta.location_str, filename),
                            !.output_filename = OutputFilename(filename)]
                IN  IF fault = "encode" THEN [f3 EXCEPT !.exception = TRUE]
                    ELSE [f3 EXCEPT !.wrote = TRUE, !.terminal = "Rendered",
                                    !.ret = TRUE]

\* the body without the except clause
process_video_file_no_except(input_path, codec, r, fault, stat) ==
    Body(input_path, codec, r, fault, stat)

\* the short-clip return answering True
process_video_file_skip_true(input_path, codec, r, fault, stat) ==
    LET f == Body(input_path, codec, r, fault, stat)
    IN  IF f.exception
        THEN [f EXCEPT !.terminal = "Failed", !.ret = FALSE, !.exception = FALSE]
        ELSE [f EXCEPT !.ret = TRUE]

\* process_video_file: the body, and the except clause that turns any
\* exception into the return value False.  In the frame returned, ret is the
\* value returned and exception tells whether an exception leaves the call.
process_video_file(input_path, codec, r, fault, stat) ==
    LET f == Body(input_path, codec, r, fault, stat)
    IN  IF f.exception
        THEN [f EXCEPT !.terminal = "Failed", !.ret = FALSE, !.exception = FALSE]
        ELSE f

\* the answers of the collaborators to one call.  An answer the call never
\* asks for (the draw and the later faults of a clip that is not loaded or is
\* too short, the stat of a clip whose extraction fails) is fixed, so that
\* each run of the call is listed once.
CallInputs ==
    {in \in [codec : CodecOutcomes, r : 0..RandomSteps,
             fault : Faults, stat : StatOutcomes] :
        LET selects == in.codec.ok /\ in.codec.duration >= ClipSeconds
        IN  /\ ~selects => (in.r = 0 /\ in.fault = "none")
            /\ (~selects \/ in.fault = "extract") => in.stat.ok}

(***************************************************************************)
(* main.                                                                   *)
(***************************************************************************)
\* os.makedirs called whatever the mode
MakeDirsAlways(dry, exists) ==
    TRUE

\* "if not args.dry_run: os.makedirs(output_dir, exist_ok=True)": whether
\* the output directory exists afterwards
MakeDirs(dry, exists) ==
    IF ~dry THEN TRUE ELSE exists

\* the failures not reflected in the return value
ExitStatusZero(n_failed) ==
    0

\* "return 0 if failed == 0 else 1"
ExitStatus(n_failed) ==
    IF n_failed = 0 THEN 0 ELSE 1

Init ==
    /\ pc = "start"
    /\ source_is_dir \in BOOLEAN
    /\ dry_run \in BOOLEAN
    /\ tree \in (IF source_is_dir THEN Trees ELSE {{}})
    /\ out_dir_exists \in BOOLEAN
    /\ out_files = <<>>
    /\ fs_before = [out_dir_exists |-> out_dir_exists, out_files |-> out_files]
    /\ video_files = <<>>
    /\ calls = <<>>
    /\ outcomes = <<>>
    /\ successful = 0
    /\ failed = 0
    /\ last = NoFrame
    /\ exit_code = -1

\* main up to the search: the check of the input directory and the creation
\* of the output directory
ValidateInput ==
    /\ pc = "start"
    /\ IF ~source_is_dir
       THEN /\ exit_code' = 1
            /\ pc' = "done"
            /\ UNCHANGED out_dir_exists
       ELSE /\ out_dir_exists' = MakeDirs(dry_run, out_dir_exists)
            /\ pc' = "discover"
            /\ UNCHANGED exit_code
    /\ UNCHANGED <<source_is_dir, dry_run, tree, out_files, fs_before,
                   video_files, calls, outcomes, successful, failed, last>>

\* the search, the "No video files found" return and the dry-run listing
Discover ==
    /\ pc = "discover"
    /\ \E sc \in ScanChoices(tree, DirsOf(tree)) :
          video_files' = find_video_files(sc, Root)
    /\ IF video_files' = <<>> \/ dry_run
       THEN /\ exit_code' = 0
            /\ pc' = "done"
       ELSE /\ pc' = "loop"
            /\ UNCHANGED exit_code
    /\ successful' = 0
    /\ failed' = 0
    /\ UNCHANGED <<source_is_dir, dry_run, tree, out_dir_exists, out_files,
                   fs_before, calls, outcomes, last>>

\* one iteration of the for loop: the call of process_video_file for the
\* next file and the update of the counters.  An exception that leaves the
\* call leaves main too.
ProcessNext ==
    /\ pc = "loop"
    /\ Len(calls) < Len(video_files)
    /\ LET video_file == video_files[Len(calls) + 1]
       IN  \E in \in CallInputs :
            \E f \in {process_video_file(video_file, in.codec, in.r,
                                         in.fault, in.stat)} :
                  /\ calls' = Append(calls, video_file)
                  /\ last' = f
                  /\ out_files' =
                        IF f.wrote
                        THEN [n \in DOMAIN out_files \cup {f.output_filename} |->
                                IF n = f.output_filename THEN video_file
                                ELSE out_files[n]]
                        ELSE out_files
                  /\ IF f.exception
                     THEN /\ pc' = "crashed"
                          /\ UNCHANGED <<outcomes, successful, failed>>
                     ELSE /\ pc' = pc
                          /\ outcomes' = Append(outcomes, f.terminal)
                          /\ successful' = IF f.ret THEN successful + 1 ELSE successful
                          /\ failed' = IF f.ret THEN failed ELSE failed + 1
    /\ UNCHANGED <<source_is_dir, dry_run, tree, out_dir_exists, fs_before,
                   video_files, exit_code>>

\* the end of the loop: the summary and the return value
Finish ==
    /\ pc = "loop"
    /\ Len(calls) = Len(video_files)
    /\ exit_code' = ExitStatus(failed)
    /\ pc' = "done"
    /\ UNCHANGED <<source_is_dir, dry_run, tree, out_dir_exists, out_files,
                   fs_before, video_files, calls, outcomes, successful,
                   failed, last>>

Next ==
    \/ ValidateInput
    \/ Discover
    \/ ProcessNext
    \/ Finish

Spec == Init /\ [][Next]_vars

(***************************************************************************)
(* The title-card composition on its own: every combination of a present   *)
(* or absent date and location, for every file name of the pool.           *)
(***************************************************************************)
TitleDates ==
    {None, Some(Strftime(0))}

TitleLocations ==
    {None} \cup {Some(Title(Cities[k])) : k \in 1..Len(Cities)}

InitTitle ==
    /\ pc = "compose"
    /\ source_is_dir = TRUE
    /\ dry_run = FALSE
    /\ tree = FilePool
    /\ out_dir_exists = TRUE
    /\ out_files = <<>>
    /\ fs_before = [out_dir_exists |-> TRUE, out_files |-> <<>>]
    /\ video_files = <<>>
    /\ calls = <<>>
    /\ outcomes = <<>>
    /\ successful = 0
    /\ failed = 0
    /\ \E p \in FilePool, d \in TitleDates, l \in TitleLocations :
          last = [NoFrame EXCEPT !.input_path = Some(p), !.date_str = d,
                                 !.location_str = l]
    /\ exit_code = -1

\* lines 143-152 of process_video_file applied to the metadata of the frame
ComposeTitle ==
    /\ pc = "compose"
    /\ last' = [last EXCEPT
                  !.resolved = TRUE,
                  !.title_parts =
                      TitleParts(last.date_str, last.location_str,
                                 Stem(last.input_path.val.name))]
    /\ pc' = "composed"
    /\ UNCHANGED <<source_is_dir, dry_run, tree, out_dir_exists, out_files,
                   fs_before, video_files, calls, outcomes, successful,
                   failed, exit_code>>

NextTitle ==
    ComposeTitle

SpecTitle == InitTitle /\ [][NextTitle]_vars

(***************************************************************************)
(* Properties.                                                             *)
(***************************************************************************)
Terminal == {"Rendered", "Rejected", "Failed"}

Count(seq, S) ==
    Cardinality({i \in DOMAIN seq : seq[i] \in S})

NonDryRunDone ==
    pc = "done" /\ source_is_dir /\ ~dry_run

\* C1: in a non-dry run no per-file error aborts the batch: main never
\* ends by an exception, process_video_file is called once per discovered
\* file in discovery order, every completed call has exactly one terminal
\* outcome, and when main returns every discovered file has been processed.
C1_BatchNeverAborts ==
    /\ pc # "crashed"
    /\ Len(calls) <= Len(video_files)
    /\ calls = SubSeq(video_files, 1, Len(calls))
    /\ Len(outcomes) = Len(calls)
    /\ \A i \in DOMAIN outcomes : outcomes[i] \in Terminal
    /\ NonDryRunDone =>
          /\ calls = video_files
          /\ Len(outcomes) = Len(video_files)

\* a finished batch in which a failed file and a rejected file are each
\* followed by a file that is processed
C1_Witness ==
    /\ NonDryRunDone
    /\ Len(video_files) = 3
    /\ outcomes = <<"Failed", "Rejected", "Rendered">>

\* C2: main returns 0 exactly when the source directory exists and the run
\* is a dry run, or no file is discovered, or every discovered file is
\* rendered; it returns 1 exactly when the source directory is missing, or
\* the run is not a dry run and some file failed or was rejected.
C2_ExitCode ==
    pc = "done" =>
        /\ exit_code \in {0, 1}
        /\ exit_code = 0 <=>
              (source_is_dir /\
                  (\/ dry_run
                   \/ video_files = <<>>
                   \/ /\ Len(outcomes) = Len(video_files)
                      /\ \A i \in DOMAIN outcomes : outcomes[i] = "Rendered"))
        /\ exit_code = 1 <=>
              (\/ ~source_is_dir
               \/ /\ ~dry_run
                  /\ \E i \in DOMAIN outcomes :
                        outcomes[i] \in {"Failed", "Rejected"})

\* a non-dry run that returns 1 because its only flaw is a rejected clip
C2_Witness ==
    /\ NonDryRunDone
    /\ exit_code = 1
    /\ Count(outcomes, {"Rejected"}) = 1
    /\ Count(outcomes, {"Failed"}) = 0
    /\ Count(outcomes, {"Rendered"}) >= 1

\* C3: the counters: successful is the number of files that reached
\* Rendered, failed the number that reached Failed or Rejected, their sum is
\* the number of files completed so far, and N when the run has finished.
C3_Counters ==
    /\ successful = Count(outcomes, {"Rendered"})
    /\ failed = Count(outcomes, {"Failed"}) + Count(outcomes, {"Rejected"})
    /\ successful + failed = Len(calls)
    /\ NonDryRunDone => successful + failed = Len(video_files)

\* the batch of the specification's example: one success, one clip too
\* short, one render failure
C3_Witness ==
    /\ NonDryRunDone
    /\ outcomes = <<"Rendered", "Rejected", "Failed">>
    /\ successful = 1
    /\ failed = 2
    /\ exit_code = 1

\* C4: a clip shorter than 5 s is rejected, with no extraction and nothing
\* rendered; for a clip of 5 s or more the selected window satisfies
\* 0 <= start <= d - 5 and end = start + 5, hence end <= d, and start = 0
\* when d = 5.
C4_ClipWindow ==
    /\ (last.loaded /\ last.duration < 5) =>
          /\ last.terminal = "Rejected"
          /\ ~last.extracted
          /\ ~last.resolved
          /\ ~last.wrote
    /\ (last.loaded /\ last.duration >= 5) =>
          /\ last.extracted
          /\ 0 <= last.start_time
          /\ last.start_time <= last.duration - 5
          /\ last.end_time = last.start_time + 5
          /\ last.end_time <= last.duration
          /\ last.duration = 5 => last.start_time = 0
    /\ last.extracted => (last.loaded /\ last.duration >= 5)

\* a window that ends exactly at the end of a clip longer than 5 s
C4_Witness ==
    /\ last.extracted
    /\ last.duration > 5
    /\ last.start_time = last.duration - 5
    /\ last.terminal = "Rendered"

FileLine(frame) ==
    <<"File: ", Stem(frame.input_path.val.name)>>

\* C5: the composed title card, for every combination of a present or
\* absent date and location: the Date line is there iff the date is, the
\* Location line iff the location is, in the order Date, Location, File,
\* and the File line is always last; with both absent the card is the File
\* line alone.
C5_TitleCard ==
    last.resolved =>
        LET d == last.date_str
            l == last.location_str
            parts == last.title_parts
        IN  /\ parts # <<>>
            /\ parts[Len(parts)] = FileLine(last)
            /\ (d.some /\ l.some) =>
                  parts = <<<<"Date: ", d.val>>, <<"Location: ", l.val>>,
                            FileLine(last)>>
            /\ (d.some /\ ~l.some) =>
                  parts = <<<<"Date: ", d.val>>, FileLine(last)>>
            /\ (~d.some /\ l.some) =>
                  parts = <<<<"Location: ", l.val>>, FileLine(last)>>
            /\ (~d.some /\ ~l.some) => parts = <<FileLine(last)>>

\* a card composed from a location without a date
C5_Witness ==
    /\ last.resolved
    /\ ~last.date_str.some
    /\ last.location_str.some
    /\ Len(last.title_parts) = 2

\* C6: a dry run stops after discovery: no file is loaded, no metadata is
\* resolved, no window selected, nothing rendered, and the output directory
\* and its files are as they were before the run.
C6_DryRunNoEffects ==
    dry_run =>
        /\ pc \in {"start", "discover", "done"}
        /\ calls = <<>>
        /\ outcomes = <<>>
        /\ last = NoFrame
        /\ out_dir_exists = fs_before.out_dir_exists
        /\ out_files = fs_before.out_files

\* a finished dry run that discovered files and left the output directory
\* missing
C6_Witness ==
    /\ dry_run
    /\ pc = "done"
    /\ exit_code = 0
    /\ Len(video_files) >= 2
    /\ ~out_dir_exists

\* C7: one output file per source: after a non-dry run the number of proxy
\* files written is the succeeded count, and the proxy of every rendered
\* source is still the one written for that source.
C7_OneOutputPerSource ==
    NonDryRunDone =>
        /\ Cardinality(DOMAIN out_files) = successful
        /\ \A i \in DOMAIN outcomes :
              outcomes[i] = "Rendered" =>
                  LET n == OutputFilename(Stem(video_files[i].name))
                  IN  n \in DOMAIN out_files /\ out_files[n] = video_files[i]

\* the code points of the characters of the pool's names, in increasing order
CodePointOrder ==
    <<".", "3", "4">> \o UpperLetters \o <<"_">> \o LowerLetters

CodePoint(c) ==
    CHOOSE i \in 1..Len(CodePointOrder) : CodePointOrder[i] = c

\* s < t as Python compares strings
RECURSIVE LexLess(_, _)
LexLess(s, t) ==
    IF t = <<>> THEN FALSE
    ELSE IF s = <<>> THEN TRUE
    ELSE IF Head(s) = Head(t) THEN LexLess(Tail(s), Tail(t))
    ELSE CodePoint(Head(s)) < CodePoint(Head(t))

\* the enumeration that lists the entries of every directory by name
LexScan(T) ==
    [d \in DirsOf(T) |->
        SortSeq(CHOOSE o \in Orders(Entries(T, d)) : TRUE,
                LAMBDA x, y : LexLess(x.name, y.name))]

\* C8: the listing discovery returns is the walk of the tree with the
\* entries of every directory in lexicographic order, whatever the order in
\* which the filesystem enumerates them.
C8_LexicographicOrder ==
    (pc \in {"loop", "done"} /\ source_is_dir) =>
        video_files = find_video_files(LexScan(tree), Root)

\* a file name qualifies: it ends with its last dot and what follows, that
\* dot is not its first character, and this ending, lower-cased, is one of
\* the nine extensions
Qualifies(name) ==
    \E k \in 2..(Len(name) - 1) :
        /\ name[k] = "."
        /\ \A j \in (k + 1)..Len(name) : name[j] # "."
        /\ \E e \in VIDEO_EXTENSIONS :
              /\ Len(e) = Len(name) - k + 1
              /\ \A j \in 1..Len(e) : LowerChar(name[k + j - 1]) = e[j]

\* C9: discovery returns exactly the qualifying files of the tree, at any
\* depth, each once; a tree without a qualifying file yields the empty
\* listing and a normal return.
C9_DiscoveryExact ==
    (pc \in {"loop", "done"} /\ source_is_dir) =>
        /\ \A f \in tree :
              (\E i \in DOMAIN video_files : video_files[i] = f)
                  <=> Qualifies(f.name)
        /\ \A i \in DOMAIN video_files : video_files[i] \in tree
        /\ \A i, j \in DOMAIN video_files :
              video_files[i] = video_files[j] => i = j
        /\ (\A f \in tree : ~Qualifies(f.name)) =>
              (video_files = <<>> /\ pc = "done" /\ exit_code = 0)

\* a tree with an upper-case extension, a text file and a video two
\* directories down: the listing holds the two videos
C9_Witness ==
    /\ pc = "done"
    /\ tree = { [dir |-> Root, name |-> <<"a",".","M","O","V">>],
                [dir |-> Root, name |-> <<"a",".","t","x","t">>],
                [dir |-> DirDE,
                 name |-> <<"N","Y","C","p","a","r","i","s",".","m","k","v">>] }
    /\ Len(video_files) = 2

\* the location the file name stands for: the first keyword of the list
\* found in the lower-cased stem, title-cased
ExpectedLocation(name) ==
    LET hits == {k \in 1..Len(Cities) : Contains(Lower(Stem(name)), Cities[k])}
    IN  IF hits = {} THEN None
        ELSE Some(Title(Cities[CHOOSE k \in hits : \A h \in hits : k <= h]))

\* C10: metadata resolution never raises and degrades per field: the
\* location is the one the file name stands for whether or not os.stat
\* succeeds.
C10_LocationPerField ==
    last.resolved =>
        last.location_str = ExpectedLocation(last.input_path.val.name)

====
